---- MODULE Spec2Model ----
(***************************************************************************)
(* Model of dxf-hatch-app/backend/main.py: the two request handlers        *)
(* /generate and /hatch-on-upload.                                         *)
(*                                                                         *)
(* Conventions.                                                            *)
(*  - A Python str that the code inspects character by character (the      *)
(*    file names) is a sequence of one-character strings.                  *)
(*  - A Python float is a number of tenths (2 is 0.2, 450 is 45.0, -5 is   *)
(*    -0.5), so that int() and str() of a float are real conversions.      *)
(*  - A document of the drawing library is a record: its $INSUNITS header, *)
(*    its layer table (a sequence of names) and its model space (a         *)
(*    sequence of entities in stored order).                               *)
(*  - Each request runs in its own slot; pc[r] is the handler's position.  *)
(***************************************************************************)
EXTENDS Integers, Sequences, FiniteSets, TLC

VARIABLES pc, req, content, doc, first_circle, resp, log

vars == <<pc, req, content, doc, first_circle, resp, log>>

(***************************************************************************)
(* Bounds of the model.                                                    *)
(***************************************************************************)
MaxEnt == 3        \* entities in an uploaded model space
MaxTenths == 12    \* pattern angles range over -MaxTenths..MaxTenths tenths
NumSlots == 2      \* requests in flight in the concurrent specification

(***************************************************************************)
(* Python values.                                                          *)
(***************************************************************************)
None == [type |-> "None"]

Abs(x) == IF x < 0 THEN -x ELSE x

DIGITS == <<"0", "1", "2", "3", "4", "5", "6", "7", "8", "9">>

RECURSIVE NatStr(_)
NatStr(n) == IF n < 10 THEN <<DIGITS[n + 1]>>
             ELSE NatStr(n \div 10) \o <<DIGITS[(n % 10) + 1]>>

\* str(i) of an int
IntStr(i) == IF i < 0 THEN <<"-">> \o NatStr(-i) ELSE NatStr(i)

\* str(x) of a float with one decimal digit (x in tenths): repr, e.g. "0.2"
FloatStr(x) == (IF x < 0 THEN <<"-">> ELSE << >>)
               \o NatStr(Abs(x) \div 10) \o <<".">> \o <<DIGITS[(Abs(x) % 10) + 1]>>

\* math.floor in place of int(): rounds negative angles away from zero
IntOfFloatFloor(x) == x \div 10

\* int(x) of a float (x in tenths): truncation toward zero
IntOfFloat(x) == IF x >= 0 THEN x \div 10 ELSE -((-x) \div 10)

LowerChar(c) == CASE c = "D" -> "d"
                  [] c = "X" -> "x"
                  [] c = "F" -> "f"
                  [] c = "A" -> "a"
                  [] OTHER -> c

\* str.lower()
Lower(s) == [i \in 1..Len(s) |-> LowerChar(s[i])]

\* str.endswith(suffix)
EndsWith(s, suffix) ==
    /\ Len(s) >= Len(suffix)
    /\ SubSeq(s, Len(s) - Len(suffix) + 1, Len(s)) = suffix

\* the start positions of sep in s
Occurrences(s, sep) ==
    {i \in 1..(Len(s) - Len(sep) + 1) : SubSeq(s, i, i + Len(sep) - 1) = sep}

\* s.rsplit(sep, 1)[0]: what precedes the last occurrence of sep, or s
RSplitHead(s, sep) ==
    LET occ == Occurrences(s, sep)
    IN  IF occ = {} THEN s
        ELSE SubSeq(s, 1, (CHOOSE i \in occ : \A j \in occ : j <= i) - 1)

(***************************************************************************)
(* Literals of main.py.                                                    *)
(***************************************************************************)
DOT_DXF == <<".", "d", "x", "f">>
HATCHED_DXF == <<"_", "H", "A", "T", "C", "H", "E", "D", ".", "d", "x", "f">>
CIRCLE_HATCH_ == <<"c", "i", "r", "c", "l", "e", "_", "h", "a", "t", "c", "h", "_">>
MM_ == <<"m", "m", "_">>
DEG_DXF == <<"d", "e", "g", ".", "d", "x", "f">>
INSUNITS_MM == 4
HTTP_BAD_REQUEST == 400
HTTP_OK == 200
HTTP_UNPROCESSABLE == 422
HTTP_SERVER_ERROR == 500
MEDIA_DXF == "application/dxf"
DETAIL_EXT == <<"Carica un file .dxf">>
DETAIL_NO_CIRCLE == <<"Nessun CIRCLE trovato nel DXF caricato.">>

\* f"DXF non valido: {e}": the literal followed by str(e)
DetailInvalid(msg) == <<"DXF non valido: ", msg>>

(***************************************************************************)
(* The drawing library's objects, as far as main.py uses them.             *)
(***************************************************************************)
CircleEntity(c, r, layer) ==
    [type |-> "CIRCLE", center |-> c, radius |-> r, layer |-> layer]

\* msp.add_hatch(dxfattribs={"layer": layer}): a new hatch with no boundary
NewHatch(layer) ==
    [type |-> "HATCH", layer |-> layer, associative |-> FALSE,
     paths |-> << >>, pattern |-> None]

\* hatch.set_associative(flag)
SetAssociative(h, flag) == [h EXCEPT !.associative = flag]

\* hatch.edit_boundary(): e.add_circle(center, radius)
AddBoundaryCircle(h, c, r) ==
    [h EXCEPT !.paths = Append(@, [center |-> c, radius |-> r])]

\* hatch.set_pattern_fill(name, angle, scale) with angle and scale swapped
SetPatternFillSwapped(h, name, angle, scale) ==
    [h EXCEPT !.pattern = [name |-> name, angle |-> scale, scale |-> angle]]

\* hatch.set_pattern_fill(name, angle=angle, scale=scale)
SetPatternFill(h, name, angle, scale) ==
    [h EXCEPT !.pattern = [name |-> name, angle |-> angle, scale |-> scale]]

\* name in doc.layers
HasLayer(layers, name) == \E i \in 1..Len(layers) : layers[i] = name

\* doc.layers.new(name=name): raises when the table already holds the name
LayersNew(table, name) ==
    IF table.raised \/ HasLayer(table.layers, name)
    THEN [raised |-> TRUE, layers |-> table.layers]
    ELSE [raised |-> FALSE, layers |-> Append(table.layers, name)]

RECURSIVE MakeLayersFrom(_, _, _)
MakeLayersFrom(table, layer_names, tested) ==
    IF layer_names = << >> \/ table.raised THEN table
    ELSE LET name == Head(layer_names)
         IN  MakeLayersFrom(
                 IF tested /\ HasLayer(table.layers, name) THEN table
                 ELSE LayersNew(table, name),
                 Tail(layer_names), tested)

\* the loop of _make_layers without its membership test
MakeLayersNoTest(layers, layer_names) ==
    MakeLayersFrom([raised |-> FALSE, layers |-> layers], layer_names, FALSE)

\* _make_layers(doc, layer_names) on the layer table: for each name, new() if absent
MakeLayers(layers, layer_names) ==
    MakeLayersFrom([raised |-> FALSE, layers |-> layers], layer_names, TRUE)

\* e.dxftype() == "CIRCLE", loosened to every entity with a centre and radius
IsCircleOrArc(e) == e.type \in {"CIRCLE", "ARC"}

\* e.dxftype() == "CIRCLE"
IsCircle(e) == e.type = "CIRCLE"

\* the scan without its break: the last CIRCLE wins
LastCircle(msp) ==
    LET idx == {i \in 1..Len(msp) : IsCircle(msp[i])}
    IN  IF idx = {} THEN None
        ELSE msp[CHOOSE i \in idx : \A j \in idx : j <= i]

\* the scan of the model space: the first CIRCLE in stored order, or None
FirstCircle(msp) ==
    LET idx == {i \in 1..Len(msp) : IsCircle(msp[i])}
    IN  IF idx = {} THEN None
        ELSE msp[CHOOSE i \in idx : \A j \in idx : i <= j]

(***************************************************************************)
(* ezdxf.new, ezdxf.read and doc.saveas, as far as main.py relies on them. *)
(***************************************************************************)
\* the versions main.py names as examples; any other string makes ezdxf.new raise
KnownVersions == {"R2010", "R2013", "R2018"}

\* _doc_with_units(version): a new document with $INSUNITS = 4
DocWithUnits(version) ==
    [units |-> INSUNITS_MM, layers |-> <<"0", "Defpoints">>, msp |-> << >>]

\* doc.saveas(buf): the bytes of a document
SaveAs(d) == [tag |-> "dxf", doc |-> d]

\* ezdxf.read(io.BytesIO(content)): a document, or the exception raised
ReadDxf(bytes) ==
    IF bytes.tag = "dxf"
    THEN [ok |-> TRUE, doc |-> bytes.doc]
    ELSE [ok |-> FALSE, kind |-> bytes.kind, msg |-> bytes.msg]

\* the exception classes the parser raises; all derive from Exception
ParserExceptions == {"DXFStructureError", "OSError", "UnicodeDecodeError"}

\* an except clause naming only the library's own error class
ExceptCatchesDxfOnly(kind) == kind = "DXFStructureError"

\* "except Exception as e": catches every class deriving from Exception
ExceptCatches(kind) == kind \in ParserExceptions

(***************************************************************************)
(* The steps of the handlers as functions of their inputs.                 *)
(***************************************************************************)
\* Field(..., gt=0) with a non-strict comparison
GtZeroNonStrict(x) == x >= 0

\* Field(..., gt=0)
GtZero(x) == x > 0

\* the request schema GenerateParams: radius and spacing are gt=0
ValidParams(p) == GtZero(p.radius) /\ GtZero(p.spacing)

\* _add_circle_with_hatch on the model space
AddCircleWithHatchMsp(msp, cx, cy, r, spacing, angle_deg, layer_circle, layer_hatch) ==
    LET circle == CircleEntity(<<cx, cy>>, r, layer_circle)
        hatch0 == NewHatch(layer_hatch)
        hatch1 == SetAssociative(hatch0, TRUE)
        hatch2 == AddBoundaryCircle(hatch1, <<cx, cy>>, r)
        hatch3 == SetPatternFill(hatch2, "ANSI31", angle_deg, spacing)
    IN  Append(Append(msp, circle), hatch3)

\* the hatch that hatch_on_upload adds for the circle found
UploadHatch(circle, spacing, angle_deg, layer_hatch) ==
    LET hatch0 == NewHatch(layer_hatch)
        hatch1 == SetAssociative(hatch0, TRUE)
        hatch2 == AddBoundaryCircle(hatch1, circle.center, circle.radius)
    IN  SetPatternFill(hatch2, "ANSI31", angle_deg, spacing)

\* f"circle_hatch_{params.spacing}mm_{int(params.angle_deg)}deg.dxf"
GenerateFilename(spacing, angle_deg) ==
    CIRCLE_HATCH_ \o FloatStr(spacing) \o MM_
        \o IntStr(IntOfFloat(angle_deg)) \o DEG_DXF

\* an extension test that looks for ".dxf" anywhere in the name
HasDxfAnywhere(filename) == Occurrences(Lower(filename), DOT_DXF) # {}

\* file.filename.lower().endswith(".dxf")
HasDxfExtension(filename) == EndsWith(Lower(filename), DOT_DXF)

\* f"{file.filename.rsplit('.dxf',1)[0]}_HATCHED.dxf"
UploadFilename(filename) == RSplitHead(filename, DOT_DXF) \o HATCHED_DXF

\* raise HTTPException(status_code=400, detail=...)
ErrorResponse(status, detail) ==
    [status |-> status, detail |-> detail, filename |-> << >>,
     media |-> "application/json", body |-> None]

\* StreamingResponse(buf, media_type="application/dxf", headers=...)
FileResponse(filename, buf) ==
    [status |-> HTTP_OK, detail |-> << >>, filename |-> filename,
     media |-> MEDIA_DXF, body |-> buf]

(***************************************************************************)
(* The requests the model draws from.                                      *)
(***************************************************************************)
BoundedSeqs(S, n) == UNION {[1..k -> S] : k \in 0..n}

CircleA == CircleEntity(<<0, 0>>, 100, "0")
CircleB == CircleEntity(<<5, -5>>, 25, "PARTS")
ArcA == [type |-> "ARC", center |-> <<10, 10>>, radius |-> 7, layer |-> "0"]
OldHatch == NewHatch("0")

UploadEntities == {CircleA, CircleB, ArcA, OldHatch}

UploadedDocs(n) ==
    {[units |-> 0, layers |-> l, msp |-> m] :
        l \in {<<"0">>, <<"0", "HATCH">>}, m \in BoundedSeqs(UploadEntities, n)}

UploadedBytes(n) ==
    {SaveAs(d) : d \in UploadedDocs(n)}
    \cup {[tag |-> "garbage", kind |-> k, msg |-> m] :
            k \in ParserExceptions, m \in {"Invalid group code", "not a DXF file"}}

FileNames ==
    { <<"a", ".", "d", "x", "f">>,
      <<"A", ".", "D", "X", "F">>,
      <<"a", ".", "D", "x", "f">>,
      <<"a", ".", "t", "x", "t">>,
      <<"a", ".", "d", "x", "f", ".", "d", "x", "f">>,
      <<"a", ".", "d", "x", "f", ".", "D", "X", "F">>,
      <<"a", ".", "d", "x", "f", ".", "t", "x", "t">>,
      <<"d", "x", "f">> }

UploadInputs ==
    {[kind |-> "upload", filename |-> f, bytes |-> b, spacing |-> sa[1],
      angle_deg |-> sa[2], layer_hatch |-> l] :
        f \in FileNames, b \in UploadedBytes(MaxEnt),
        sa \in {<<2, 450>>, <<15, -5>>}, l \in {"HATCH", "FILL"}}

AngleInputs == (-MaxTenths..MaxTenths) \cup {450, -455}

GenerateInputs ==
    {[kind |-> "generate", center_x |-> c[1], center_y |-> c[2], radius |-> r,
      spacing |-> s, angle_deg |-> a, layer_circle |-> lc, layer_hatch |-> lh,
      version |-> v] :
        c \in {<<0, 0>>, <<5, -5>>}, r \in {-10, 0, 100}, s \in {-2, 0, 2, 15},
        a \in AngleInputs, lc \in {"CIRCLE", "0", "HATCH"},
        lh \in {"HATCH", "0"}, v \in {"R2018", "R2010", "R9999"}}

\* the requests of the concurrent specification: a few of each kind
SmallUploadInputs ==
    {u \in UploadInputs :
        /\ u.filename \in {<<"a", ".", "d", "x", "f">>, <<"a", ".", "t", "x", "t">>}
        /\ u.spacing = 2 /\ u.layer_hatch = "FILL"
        /\ u.bytes.tag = "dxf"
        /\ u.bytes.doc.layers = <<"0">>
        /\ u.bytes.doc.msp \in {<<CircleA>>, <<CircleB, CircleA>>, <<ArcA>>}}

SmallGenerateInputs ==
    {g \in GenerateInputs :
        /\ g.center_x = 0 /\ g.radius = 100 /\ g.spacing \in {0, 2}
        /\ g.angle_deg \in {450, -5} /\ g.layer_circle = "CIRCLE"
        /\ g.layer_hatch = "HATCH" /\ g.version = "R2018"}

(***************************************************************************)
(* State: one slot per request in flight.                                  *)
(***************************************************************************)
InitSlots(S) ==
    /\ pc = [r \in S |-> "idle"]
    /\ req = [r \in S |-> None]
    /\ content = [r \in S |-> None]
    /\ doc = [r \in S |-> None]
    /\ first_circle = [r \in S |-> None]
    /\ resp = [r \in S |-> None]
    /\ log = [r \in S |-> << >>]

Init == InitSlots({1})

InitConc == InitSlots(1..NumSlots)

\* a handler-local document bound to a module-level name shared by the requests
DocShared(r) == IF doc[1] # None THEN doc[1] ELSE doc[r]

\* the handler's local variable doc
DocOf(r) == doc[r]

Step(r, from, to, name) ==
    /\ pc[r] = from
    /\ pc' = [pc EXCEPT ![r] = to]
    /\ log' = [log EXCEPT ![r] = Append(@, name)]

\* the server receives a POST /generate
ReceiveGenerate(r, inputs) ==
    /\ pc[r] = "idle"
    /\ \E g \in inputs : req' = [req EXCEPT ![r] = g]
    /\ pc' = [pc EXCEPT ![r] = "g_validate"]
    /\ UNCHANGED <<content, doc, first_circle, resp, log>>

\* the framework validates the body against GenerateParams
ValidateParams(r) ==
    /\ pc[r] = "g_validate"
    /\ IF ValidParams(req[r])
       THEN /\ Step(r, "g_validate", "g_doc", "validate")
            /\ UNCHANGED resp
       ELSE /\ Step(r, "g_validate", "done", "validate")
            /\ resp' = [resp EXCEPT ![r] =
                   ErrorResponse(HTTP_UNPROCESSABLE, <<"radius/spacing: gt 0">>)]
    /\ UNCHANGED <<req, content, doc, first_circle>>

\* doc = _doc_with_units(version=params.version); a raise is not caught
GenerateNewDoc(r) ==
    /\ pc[r] = "g_doc"
    /\ IF req[r].version \in KnownVersions
       THEN /\ Step(r, "g_doc", "g_layers", "new_doc")
            /\ doc' = [doc EXCEPT ![r] = DocWithUnits(req[r].version)]
            /\ UNCHANGED resp
       ELSE /\ Step(r, "g_doc", "done", "new_doc")
            /\ resp' = [resp EXCEPT ![r] =
                   ErrorResponse(HTTP_SERVER_ERROR, <<"Internal Server Error">>)]
            /\ UNCHANGED doc
    /\ UNCHANGED <<req, content, first_circle>>

\* _make_layers(doc, [params.layer_circle, params.layer_hatch]); a raise is not caught
GenerateMakeLayers(r) ==
    /\ pc[r] = "g_layers"
    /\ LET made == MakeLayers(DocOf(r).layers,
                              <<req[r].layer_circle, req[r].layer_hatch>>)
       IN  /\ doc' = [doc EXCEPT ![r] = [DocOf(r) EXCEPT !.layers = made.layers]]
           /\ IF made.raised
              THEN /\ Step(r, "g_layers", "done", "make_layers")
                   /\ resp' = [resp EXCEPT ![r] =
                          ErrorResponse(HTTP_SERVER_ERROR, <<"Internal Server Error">>)]
              ELSE /\ Step(r, "g_layers", "g_add", "make_layers")
                   /\ UNCHANGED resp
    /\ UNCHANGED <<req, content, first_circle>>

\* _add_circle_with_hatch(doc, ...)
GenerateAddCircleWithHatch(r) ==
    /\ Step(r, "g_add", "g_save", "add_circle_with_hatch")
    /\ doc' = [doc EXCEPT ![r] =
           [DocOf(r) EXCEPT !.msp =
               AddCircleWithHatchMsp(@, req[r].center_x, req[r].center_y,
                   req[r].radius, req[r].spacing, req[r].angle_deg,
                   req[r].layer_circle, req[r].layer_hatch)]]
    /\ UNCHANGED <<req, content, first_circle, resp>>

\* doc.saveas(buf) and the StreamingResponse of generate
GenerateSave(r) ==
    /\ Step(r, "g_save", "done", "save")
    /\ resp' = [resp EXCEPT ![r] =
           FileResponse(GenerateFilename(req[r].spacing, req[r].angle_deg),
                        SaveAs(DocOf(r)))]
    /\ UNCHANGED <<req, content, doc, first_circle>>

\* the server receives a POST /hatch-on-upload
ReceiveUpload(r, inputs) ==
    /\ pc[r] = "idle"
    /\ \E u \in inputs : req' = [req EXCEPT ![r] = u]
    /\ pc' = [pc EXCEPT ![r] = "u_ext"]
    /\ UNCHANGED <<content, doc, first_circle, resp, log>>

\* if not file.filename.lower().endswith(".dxf"): raise HTTPException(400)
UploadCheckExtension(r) ==
    /\ pc[r] = "u_ext"
    /\ IF HasDxfExtension(req[r].filename)
       THEN /\ Step(r, "u_ext", "u_read", "check_extension")
            /\ UNCHANGED resp
       ELSE /\ Step(r, "u_ext", "done", "check_extension")
            /\ resp' = [resp EXCEPT ![r] =
                   ErrorResponse(HTTP_BAD_REQUEST, DETAIL_EXT)]
    /\ UNCHANGED <<req, content, doc, first_circle>>

\* content = file.file.read()
UploadRead(r) ==
    /\ Step(r, "u_read", "u_parse", "read")
    /\ content' = [content EXCEPT ![r] = req[r].bytes]
    /\ UNCHANGED <<req, doc, first_circle, resp>>

\* try: doc = ezdxf.read(...) except Exception as e: raise HTTPException(400)
UploadParse(r) ==
    /\ pc[r] = "u_parse"
    /\ LET got == ReadDxf(content[r])
       IN  IF got.ok
           THEN /\ Step(r, "u_parse", "u_layers", "parse")
                /\ doc' = [doc EXCEPT ![r] = got.doc]
                /\ UNCHANGED resp
           ELSE /\ Step(r, "u_parse", "done", "parse")
                /\ resp' = [resp EXCEPT ![r] =
                       IF ExceptCatches(got.kind)
                       THEN ErrorResponse(HTTP_BAD_REQUEST, DetailInvalid(got.msg))
                       ELSE ErrorResponse(HTTP_SERVER_ERROR, <<"Internal Server Error">>)]
                /\ UNCHANGED doc
    /\ UNCHANGED <<req, content, first_circle>>

\* _make_layers(doc, [layer_hatch]); outside the try, so a raise is not caught
UploadMakeLayers(r) ==
    /\ pc[r] = "u_layers"
    /\ LET made == MakeLayers(DocOf(r).layers, <<req[r].layer_hatch>>)
       IN  /\ doc' = [doc EXCEPT ![r] = [DocOf(r) EXCEPT !.layers = made.layers]]
           /\ IF made.raised
              THEN /\ Step(r, "u_layers", "done", "make_layers")
                   /\ resp' = [resp EXCEPT ![r] =
                          ErrorResponse(HTTP_SERVER_ERROR, <<"Internal Server Error">>)]
              ELSE /\ Step(r, "u_layers", "u_scan", "make_layers")
                   /\ UNCHANGED resp
    /\ UNCHANGED <<req, content, first_circle>>

\* the for loop over msp, and the raise when first_circle is None
UploadScan(r) ==
    /\ pc[r] = "u_scan"
    /\ LET found == FirstCircle(DocOf(r).msp)
       IN  /\ first_circle' = [first_circle EXCEPT ![r] = found]
           /\ IF found = None
              THEN /\ Step(r, "u_scan", "done", "scan")
                   /\ resp' = [resp EXCEPT ![r] =
                          ErrorResponse(HTTP_BAD_REQUEST, DETAIL_NO_CIRCLE)]
              ELSE /\ Step(r, "u_scan", "u_hatch", "scan")
                   /\ UNCHANGED resp
    /\ UNCHANGED <<req, content, doc>>

\* msp.add_hatch, set_associative, edit_boundary, set_pattern_fill
UploadAddHatch(r) ==
    /\ Step(r, "u_hatch", "u_save", "add_hatch")
    /\ doc' = [doc EXCEPT ![r] =
           [DocOf(r) EXCEPT !.msp =
               Append(@, UploadHatch(first_circle[r], req[r].spacing,
                                     req[r].angle_deg, req[r].layer_hatch))]]
    /\ UNCHANGED <<req, content, first_circle, resp>>

\* doc.saveas(buf) and the StreamingResponse of hatch_on_upload
UploadSave(r) ==
    /\ Step(r, "u_save", "done", "save")
    /\ resp' = [resp EXCEPT ![r] =
           FileResponse(UploadFilename(req[r].filename), SaveAs(DocOf(r)))]
    /\ UNCHANGED <<req, content, doc, first_circle>>

\* the response is sent; the request's locals go out of scope
Release(r) ==
    /\ pc[r] = "done"
    /\ pc' = [pc EXCEPT ![r] = "idle"]
    /\ req' = [req EXCEPT ![r] = None]
    /\ content' = [content EXCEPT ![r] = None]
    /\ doc' = [doc EXCEPT ![r] = None]
    /\ first_circle' = [first_circle EXCEPT ![r] = None]
    /\ resp' = [resp EXCEPT ![r] = None]
    /\ log' = [log EXCEPT ![r] = << >>]

Handle(r) ==
    \/ ValidateParams(r)
    \/ GenerateNewDoc(r)
    \/ GenerateMakeLayers(r)
    \/ GenerateAddCircleWithHatch(r)
    \/ GenerateSave(r)
    \/ UploadCheckExtension(r)
    \/ UploadRead(r)
    \/ UploadParse(r)
    \/ UploadMakeLayers(r)
    \/ UploadScan(r)
    \/ UploadAddHatch(r)
    \/ UploadSave(r)
    \/ Release(r)

Next ==
    \E r \in {1} :
        \/ ReceiveGenerate(r, GenerateInputs)
        \/ ReceiveUpload(r, UploadInputs)
        \/ Handle(r)

NextConc ==
    \E r \in 1..NumSlots :
        \/ ReceiveGenerate(r, SmallGenerateInputs)
        \/ ReceiveUpload(r, SmallUploadInputs)
        \/ Handle(r)

\* one request at a time, over the full range of inputs
Spec == Init /\ [][Next]_vars

\* NumSlots requests in flight, their steps interleaved
SpecConc == InitConc /\ [][NextConc]_vars

(***************************************************************************)
(* Each handler from its first line to its last, as a function of the      *)
(* request: the response of a request that runs alone.                     *)
(***************************************************************************)
\* generate(params), after the framework's validation
Generate(p) ==
    IF ~ValidParams(p)
    THEN ErrorResponse(HTTP_UNPROCESSABLE, <<"radius/spacing: gt 0">>)
    ELSE IF p.version \notin KnownVersions
    THEN ErrorResponse(HTTP_SERVER_ERROR, <<"Internal Server Error">>)
    ELSE LET d0 == DocWithUnits(p.version)
             made == MakeLayers(d0.layers, <<p.layer_circle, p.layer_hatch>>)
             d1 == [d0 EXCEPT !.layers = made.layers]
             d2 == [d1 EXCEPT !.msp =
                       AddCircleWithHatchMsp(@, p.center_x, p.center_y, p.radius,
                           p.spacing, p.angle_deg, p.layer_circle, p.layer_hatch)]
         IN  IF made.raised
             THEN ErrorResponse(HTTP_SERVER_ERROR, <<"Internal Server Error">>)
             ELSE FileResponse(GenerateFilename(p.spacing, p.angle_deg), SaveAs(d2))

\* hatch_on_upload(file, spacing, angle_deg, layer_hatch)
HatchOnUpload(u) ==
    IF ~HasDxfExtension(u.filename)
    THEN ErrorResponse(HTTP_BAD_REQUEST, DETAIL_EXT)
    ELSE LET got == ReadDxf(u.bytes)
         IN  IF ~got.ok
             THEN IF ExceptCatches(got.kind)
                  THEN ErrorResponse(HTTP_BAD_REQUEST, DetailInvalid(got.msg))
                  ELSE ErrorResponse(HTTP_SERVER_ERROR, <<"Internal Server Error">>)
             ELSE LET made == MakeLayers(got.doc.layers, <<u.layer_hatch>>)
                      d1 == [got.doc EXCEPT !.layers = made.layers]
                      found == FirstCircle(d1.msp)
                      d2 == [d1 EXCEPT !.msp =
                                Append(@, UploadHatch(found, u.spacing,
                                                      u.angle_deg, u.layer_hatch))]
                  IN  IF made.raised
                      THEN ErrorResponse(HTTP_SERVER_ERROR, <<"Internal Server Error">>)
                      ELSE IF found = None
                      THEN ErrorResponse(HTTP_BAD_REQUEST, DETAIL_NO_CIRCLE)
                      ELSE FileResponse(UploadFilename(u.filename), SaveAs(d2))

(***************************************************************************)
(* Properties.  Each is stated on the request's inputs and the response,   *)
(* without the operators the handlers are built from.                      *)
(***************************************************************************)
IsUpload(r) == pc[r] # "idle" /\ req[r].kind = "upload"

IsGenerate(r) == pc[r] # "idle" /\ req[r].kind = "generate"

InLog(r, name) == \E i \in 1..Len(log[r]) : log[r][i] = name

\* the name ends in ".dxf", compared without regard to case
EndsDxfAnyCase(f) ==
    /\ Len(f) >= 4
    /\ f[Len(f) - 3] = "."
    /\ f[Len(f) - 2] \in {"d", "D"}
    /\ f[Len(f) - 1] \in {"x", "X"}
    /\ f[Len(f)] \in {"f", "F"}

CountType(msp, t) == Cardinality({i \in 1..Len(msp) : msp[i].type = t})

\* the upload is accepted and its model space holds a CIRCLE
UploadWithCircle(r) ==
    /\ IsUpload(r)
    /\ EndsDxfAnyCase(req[r].filename)
    /\ req[r].bytes.tag = "dxf"
    /\ CountType(req[r].bytes.doc.msp, "CIRCLE") >= 1

\* C1: an accepted upload whose model space holds a CIRCLE is answered with
\* the uploaded entities followed by exactly one new HATCH, on the requested
\* layer, associative, whose single boundary path has the center and radius of
\* the first CIRCLE in stored order, whatever comes before or after it.
C1_HatchOnFirstCircle ==
    \A r \in DOMAIN pc :
        (UploadWithCircle(r) /\ pc[r] = "done") =>
            /\ resp[r].status = 200
            /\ resp[r].body.tag = "dxf"
            /\ LET before == req[r].bytes.doc.msp
                   after == resp[r].body.doc.msp
                   hatch == after[Len(after)]
               IN  /\ Len(after) = Len(before) + 1
                   /\ SubSeq(after, 1, Len(before)) = before
                   /\ CountType(after, "HATCH") = CountType(before, "HATCH") + 1
                   /\ hatch.type = "HATCH"
                   /\ hatch.layer = req[r].layer_hatch
                   /\ hatch.associative = TRUE
                   /\ Len(hatch.paths) = 1
                   /\ \E k \in 1..Len(before) :
                          /\ before[k].type = "CIRCLE"
                          /\ \A j \in 1..(k - 1) : before[j].type # "CIRCLE"
                          /\ hatch.paths[1].center = before[k].center
                          /\ hatch.paths[1].radius = before[k].radius

\* a hatched upload whose first CIRCLE follows a non-circle and precedes another circle
C1_Witness ==
    /\ pc[1] = "done"
    /\ UploadWithCircle(1)
    /\ req[1].bytes.doc.msp = <<ArcA, CircleB, CircleA>>
    /\ resp[1].status = 200
    /\ resp[1].body.doc.msp[4].paths[1].radius = 25

\* C2: an upload whose name does not end in ".dxf" (case-insensitively) is
\* answered 400 by the extension check alone: its bytes are never read or
\* parsed, also when they are unparsable; and every read or parse is preceded
\* by an extension check that the name passed.
C2_ExtensionRejectedBeforeParse ==
    \A r \in DOMAIN pc :
        IsUpload(r) =>
            /\ (~EndsDxfAnyCase(req[r].filename) /\ pc[r] # "u_ext") =>
                   /\ pc[r] = "done"
                   /\ resp[r].status = 400
                   /\ resp[r].detail = <<"Carica un file .dxf">>
                   /\ log[r] = <<"check_extension">>
                   /\ content[r] = None
                   /\ doc[r] = None
            /\ (InLog(r, "read") \/ InLog(r, "parse")) =>
                   /\ log[r][1] = "check_extension"
                   /\ EndsDxfAnyCase(req[r].filename)

\* a name holding ".dxf" but not ending in it, with unparsable bytes, rejected for its name
C2_Witness ==
    /\ pc[1] = "done"
    /\ IsUpload(1)
    /\ req[1].filename = <<"a", ".", "d", "x", "f", ".", "t", "x", "t">>
    /\ req[1].bytes.tag = "garbage"
    /\ resp[1].status = 400
    /\ resp[1].detail = DETAIL_EXT

\* C3: every accepted upload is answered with the original name minus its
\* extension (its last four characters, in whatever case) plus "_HATCHED.dxf".
C3_NameStripsOriginalExtension ==
    \A r \in DOMAIN pc :
        (IsUpload(r) /\ pc[r] = "done" /\ resp[r].status = 200) =>
            resp[r].filename =
                SubSeq(req[r].filename, 1, Len(req[r].filename) - 4)
                    \o <<"_", "H", "A", "T", "C", "H", "E", "D", ".", "d", "x", "f">>

\* the upload parses and its model space holds no CIRCLE
UploadWithoutCircle(r) ==
    /\ IsUpload(r)
    /\ EndsDxfAnyCase(req[r].filename)
    /\ req[r].bytes.tag = "dxf"
    /\ CountType(req[r].bytes.doc.msp, "CIRCLE") = 0

\* C4: an upload that parses and holds no CIRCLE is answered 400 with the
\* "no CIRCLE found" message; no hatch is added to the document and no
\* drawing file is returned.
C4_NoCircleRejected ==
    \A r \in DOMAIN pc :
        UploadWithoutCircle(r) =>
            /\ pc[r] \notin {"u_hatch", "u_save"}
            /\ ~InLog(r, "add_hatch")
            /\ ~InLog(r, "save")
            /\ doc[r] # None => doc[r].msp = req[r].bytes.doc.msp
            /\ pc[r] = "done" =>
                   /\ resp[r].status = 400
                   /\ resp[r].detail = <<"Nessun CIRCLE trovato nel DXF caricato.">>
                   /\ resp[r].body = None
                   /\ resp[r].filename = << >>

\* a document holding an arc and a hatch but no circle, rejected
C4_Witness ==
    /\ pc[1] = "done"
    /\ UploadWithoutCircle(1)
    /\ req[1].bytes.doc.msp = <<ArcA, OldHatch>>
    /\ resp[1].status = 400

\* the upload has a recognised extension and bytes the parser rejects
UploadUnparsable(r) ==
    /\ IsUpload(r)
    /\ EndsDxfAnyCase(req[r].filename)
    /\ req[r].bytes.tag = "garbage"

\* C5: an upload with a recognised extension whose bytes the parser rejects,
\* with whatever exception, is answered 400 with a detail that holds the
\* parser's message; layer creation, scan, hatch creation and serialization
\* never run for it.
C5_ParseFailureRejected ==
    \A r \in DOMAIN pc :
        UploadUnparsable(r) =>
            /\ pc[r] \in {"u_ext", "u_read", "u_parse", "done"}
            /\ doc[r] = None
            /\ \A n \in {"make_layers", "scan", "add_hatch", "save"} : ~InLog(r, n)
            /\ pc[r] = "done" =>
                   /\ resp[r].status = 400
                   /\ \E i \in 1..Len(resp[r].detail) :
                          resp[r].detail[i] = req[r].bytes.msg
                   /\ resp[r].body = None
                   /\ log[r] = <<"check_extension", "read", "parse">>

\* a parse failure that is not the library's own error class, answered 400
C5_Witness ==
    /\ pc[1] = "done"
    /\ UploadUnparsable(1)
    /\ req[1].bytes.kind = "UnicodeDecodeError"
    /\ req[1].filename = <<"A", ".", "D", "X", "F">>
    /\ resp[1].status = 400

Occurs(layers, name) == Cardinality({i \in 1..Len(layers) : layers[i] = name})

\* the layer names the request asks for
RequestedLayers(r) ==
    IF req[r].kind = "generate" THEN {req[r].layer_circle, req[r].layer_hatch}
    ELSE {req[r].layer_hatch}

\* C6: once the layer-ensuring step has run, it has not failed, and every
\* requested layer name is in the document's layer table exactly once, also
\* when the name was there before and when both names of /generate are equal;
\* the layers that were there before are kept.
C6_LayersExactlyOnce ==
    \A r \in DOMAIN pc :
        (pc[r] # "idle" /\ InLog(r, "make_layers")) =>
            /\ log[r][Len(log[r])] = "make_layers" => pc[r] \in {"g_add", "u_scan"}
            /\ resp[r] # None => resp[r].status # 500
            /\ \A n \in RequestedLayers(r) : Occurs(doc[r].layers, n) = 1
            /\ Occurs(doc[r].layers, "0") = 1
            /\ IsUpload(r) =>
                   SubSeq(doc[r].layers, 1, Len(req[r].bytes.doc.layers))
                       = req[r].bytes.doc.layers

\* /generate given one new name for both layers, after the layer step
C6_Witness ==
    /\ pc[1] = "g_add"
    /\ IsGenerate(1)
    /\ req[1].layer_circle = "HATCH"
    /\ req[1].layer_hatch = "HATCH"
    /\ doc[1].layers = <<"0", "Defpoints", "HATCH">>

\* C7: every document /generate returns has its unit header at millimeters
\* (4) and a model space of exactly one circle, with the requested center and
\* radius on the circle layer, and one hatch, on the hatch layer, associative,
\* with one boundary path of that center and radius and the ANSI31 pattern at
\* angle = the requested angle and scale = the requested spacing; and every
\* request with positive radius and spacing and a known version gets one.
C7_GeneratedDocument ==
    \A r \in DOMAIN pc :
        (IsGenerate(r) /\ pc[r] = "done") =>
            /\ (req[r].radius > 0 /\ req[r].spacing > 0
                    /\ req[r].version \in {"R2010", "R2018"}) => resp[r].status = 200
            /\ resp[r].status = 200 =>
                   LET d == resp[r].body.doc
                   IN  /\ d.units = 4
                       /\ Len(d.msp) = 2
                       /\ d.msp[1] = [type |-> "CIRCLE",
                                      center |-> <<req[r].center_x, req[r].center_y>>,
                                      radius |-> req[r].radius,
                                      layer |-> req[r].layer_circle]
                       /\ d.msp[2].type = "HATCH"
                       /\ d.msp[2].layer = req[r].layer_hatch
                       /\ d.msp[2].associative = TRUE
                       /\ d.msp[2].paths =
                              <<[center |-> <<req[r].center_x, req[r].center_y>>,
                                 radius |-> req[r].radius]>>
                       /\ d.msp[2].pattern = [name |-> "ANSI31",
                                              angle |-> req[r].angle_deg,
                                              scale |-> req[r].spacing]

\* a generated document off the origin whose angle and spacing differ
C7_Witness ==
    /\ pc[1] = "done"
    /\ IsGenerate(1)
    /\ resp[1].status = 200
    /\ req[1].center_x = 5
    /\ req[1].spacing = 15
    /\ req[1].angle_deg = -5
    /\ resp[1].body.doc.msp[2].pattern.scale = 15

IsDigits(s) == Len(s) >= 1 /\ \A i \in 1..Len(s) : \E d \in 1..10 : DIGITS[d] = s[i]

DigitValue(c) == (CHOOSE d \in 1..10 : DIGITS[d] = c) - 1

RECURSIVE NatValue(_)
NatValue(s) == IF s = << >> THEN 0
               ELSE 10 * NatValue(SubSeq(s, 1, Len(s) - 1)) + DigitValue(s[Len(s)])

\* s is the decimal numeral of the integer n
ReadsAsInt(s, n) ==
    IF n < 0
    THEN Len(s) >= 2 /\ s[1] = "-" /\ IsDigits(Tail(s)) /\ NatValue(Tail(s)) = -n
    ELSE IsDigits(s) /\ NatValue(s) = n

\* s is digits "." digit and reads as x tenths
ReadsAsTenths(s, x) ==
    /\ Len(s) >= 3
    /\ s[Len(s) - 1] = "."
    /\ IsDigits(SubSeq(s, 1, Len(s) - 2))
    /\ IsDigits(<<s[Len(s)]>>)
    /\ 10 * NatValue(SubSeq(s, 1, Len(s) - 2)) + DigitValue(s[Len(s)]) = x

\* t is a (in tenths) with its fraction dropped: rounded toward zero
IsTruncationOf(t, a) ==
    /\ 10 * Abs(t) <= Abs(a)
    /\ Abs(a) < 10 * Abs(t) + 10
    /\ t > 0 => a > 0
    /\ t < 0 => a < 0

\* C8: the name of every file /generate returns is "circle_hatch_", the
\* decimal numeral of exactly the spacing supplied, "mm_", the numeral of the
\* angle truncated toward zero (negative and fractional angles too), and
\* "deg.dxf"; spacing 0.2 and angle 45 give "circle_hatch_0.2mm_45deg.dxf".
C8_GenerateFilename ==
    \A r \in DOMAIN pc :
        (IsGenerate(r) /\ pc[r] = "done" /\ resp[r].status = 200) =>
            LET f == resp[r].filename
            IN  /\ \E i \in 14..Len(f) : \E j \in (i + 4)..Len(f) :
                       /\ SubSeq(f, 1, 13) = CIRCLE_HATCH_
                       /\ ReadsAsTenths(SubSeq(f, 14, i), req[r].spacing)
                       /\ SubSeq(f, i + 1, i + 3) = MM_
                       /\ \E t \in -100..100 :
                              /\ ReadsAsInt(SubSeq(f, i + 4, j), t)
                              /\ IsTruncationOf(t, req[r].angle_deg)
                       /\ SubSeq(f, j + 1, Len(f)) = DEG_DXF
                /\ (req[r].spacing = 2 /\ req[r].angle_deg = 450) =>
                       f = <<"c", "i", "r", "c", "l", "e", "_", "h", "a", "t", "c", "h",
                             "_", "0", ".", "2", "m", "m", "_", "4", "5", "d", "e", "g",
                             ".", "d", "x", "f">>

\* a negative fractional angle, -0.5, named as 0
C8_Witness ==
    /\ pc[1] = "done"
    /\ IsGenerate(1)
    /\ resp[1].status = 200
    /\ req[1].angle_deg = -5
    /\ req[1].spacing = 15
    /\ resp[1].filename = <<"c", "i", "r", "c", "l", "e", "_", "h", "a", "t", "c", "h",
                            "_", "1", ".", "5", "m", "m", "_", "0", "d", "e", "g",
                            ".", "d", "x", "f">>

\* C10: /generate does nothing with a request whose radius or spacing is not
\* strictly positive: it is answered by validation alone, with no document,
\* and whenever /generate holds a document or has run a step past validation,
\* the request's radius and spacing are both positive.
C10_ValidatedBeforeHandler ==
    \A r \in DOMAIN pc :
        IsGenerate(r) =>
            /\ (doc[r] # None \/ pc[r] \in {"g_doc", "g_layers", "g_add", "g_save"}
                    \/ Len(log[r]) > 1) =>
                   (req[r].radius > 0 /\ req[r].spacing > 0)
            /\ ((req[r].radius <= 0 \/ req[r].spacing <= 0) /\ pc[r] # "g_validate") =>
                   /\ pc[r] = "done"
                   /\ log[r] = <<"validate">>
                   /\ doc[r] = None
                   /\ resp[r].status \in 400..499
                   /\ resp[r].body = None

\* a request with radius 0 and a positive spacing, rejected by validation
C10_Witness ==
    /\ pc[1] = "done"
    /\ IsGenerate(1)
    /\ req[1].radius = 0
    /\ req[1].spacing = 2
    /\ resp[1].status = 422
    /\ doc[1] = None

\* the response a request gets when it is the only one the server handles
ResponseAlone(q) == IF q.kind = "generate" THEN Generate(q) ELSE HatchOnUpload(q)

\* every finished request has the response of the same request run alone, and
\* two finished requests with equal inputs have equal responses
C9_ResponseOfOwnInputs ==
    /\ \A r \in DOMAIN pc : pc[r] = "done" => resp[r] = ResponseAlone(req[r])
    /\ \A r, q \in DOMAIN pc :
           (pc[r] = "done" /\ pc[q] = "done" /\ req[r] = req[q]) => resp[r] = resp[q]

\* a step of one request leaves every other request's variables as they were
C9_OneSlotChanges ==
    \E r \in DOMAIN pc :
        \A q \in DOMAIN pc \ {r} :
            /\ pc'[q] = pc[q] /\ req'[q] = req[q] /\ content'[q] = content[q]
            /\ doc'[q] = doc[q] /\ first_circle'[q] = first_circle[q]
            /\ resp'[q] = resp[q] /\ log'[q] = log[q]

\* C9: under every interleaving of the steps of concurrent /generate and
\* /hatch-on-upload requests, each request's response is the response the same
\* request gets when run alone, a function of its own inputs, and no step of
\* one request changes a document, buffer or variable of another.
C9_Stateless == []C9_ResponseOfOwnInputs /\ [][C9_OneSlotChanges]_vars

\* an upload finished while a different upload of another slot is mid-handler
C9_Witness ==
    /\ pc[2] = "done"
    /\ pc[1] = "u_save"
    /\ req[1].kind = "upload"
    /\ req[2].kind = "upload"
    /\ req[1].bytes # req[2].bytes
    /\ resp[2].status = 200
    /\ doc[1] # doc[2]

====
